---- MODULE Spec2Model ----
(***************************************************************************)
(* Mock FedCM Identity Provider route handler                              *)
(* (src/app/api/fedcm/[route]/route.ts).                                   *)
(*                                                                         *)
(* One request at a time is received by the GET or the POST entry point    *)
(* and carried through the handler.  The handler's position (pc) changes   *)
(* at the handler's suspension points (await), so one action is the code   *)
(* the handler runs between two awaits.                                    *)
(*                                                                         *)
(* Strings that the code compares as a whole are TLA+ strings.  Strings    *)
(* that the code builds by concatenation or searches for a substring are   *)
(* sequences of tokens.  Null stands for the JavaScript null/undefined.    *)
(***************************************************************************)
EXTENDS Integers, Sequences, FiniteSets, TLC

VARIABLES env, directory, pc, req, resp, trace, guard, formData

\* the frames of the requests that are in the handler at the same time
VARIABLES slots

\* the state of the configuration form (FedCMRPForm)
VARIABLES config, jsonOutput, autoTest, countdown, testTimerId,
          timers, cleanup, effectPending, navigations

formVars == <<config, jsonOutput, autoTest, countdown, testTimerId,
              timers, cleanup, effectPending, navigations>>

seqVars == <<pc, req, resp, trace, guard, formData>>

vars == <<env, directory, pc, req, resp, trace, guard, formData, slots, formVars>>

----------------------------------------------------------------------------
(* Bounds and value sets                                                   *)

\* number of distinct values the token generator's randomness can take
MaxSalt == 2

\* number of requests that can be in the handler at the same time
NumSlots == 2

\* number of navigations of the form after which no test is started
MaxNavigations == 2

\* handleSubmit: setCountdown(5)
CountdownStart == 5

\* stands for null where the other values are numbers
None == -1

Null == "<null>"
Throws == "<throws>"

GetMethods == {"GET", "HEAD", "OPTIONS"}
PostMethods == {"POST", "OPTIONS"}
Routes == {"manifest", "accounts", "client-metadata", "disconnect", "token",
           "config.json", "login"}
SecFetchDests == {Null, "webidentity", "WebIdentity", "document"}
ContentTypes == {Null, "application/json",
                 "application/x-www-form-urlencoded",
                 "application/x-www-form-urlencoded; charset=UTF-8"}
Sessions == {Null, "", "alice", Throws}
ClientIdQueries == {Null, "", "demo"}
AccountIdValues == {Null, "", "acc1", "doesnotexist"}
ClientIdValues == {Null, "", "demo"}
NonceValues == {Null, "", "abc", "xyz"}
DisclosureValues == {Null, "", "true", "false"}

NodeEnvs == {"development", "production"}
BypassFlags == {Null, "true", "false"}
Fqdns == {Null, "idp.example"}

----------------------------------------------------------------------------
(* Responses                                                               *)

FEDCM_HEADERS ==
  [ h \in {"Access-Control-Allow-Origin", "Access-Control-Allow-Methods",
           "Access-Control-Allow-Headers", "Access-Control-Allow-Credentials",
           "Access-Control-Max-Age", "Content-Type"} |->
      CASE h = "Access-Control-Allow-Origin" -> "*"
        [] h = "Access-Control-Allow-Methods" -> "GET, POST, OPTIONS"
        [] h = "Access-Control-Allow-Headers" ->
             "Content-Type, Sec-Fetch-Dest, Authorization, X-Requested-With"
        [] h = "Access-Control-Allow-Credentials" -> "true"
        [] h = "Access-Control-Max-Age" -> "86400"
        [] h = "Content-Type" -> "application/json" ]

NoHeaders == [ h \in {} |-> "" ]

NullBody == [ null |-> TRUE ]

\* NextResponse.json(body, {status, headers}) and new NextResponse(body, ...)
NextResponse(body, status, headers) ==
  [ status |-> status, body |-> body, headers |-> headers ]

NoResponse == NextResponse(NullBody, 0, NoHeaders)

PreflightResponse == NextResponse(NullBody, 204, FEDCM_HEADERS)

\* variant: an unknown route reported as 404
InvalidRouteResponse_404 ==
  NextResponse([error |-> <<"Invalid route">>], 404, FEDCM_HEADERS)

InvalidRouteResponse ==
  NextResponse([error |-> <<"Invalid route">>], 400, FEDCM_HEADERS)

UnauthorizedResponse ==
  NextResponse([error |-> <<"Unauthorized">>], 401, FEDCM_HEADERS)

MissingClientIdResponse ==
  NextResponse([error |-> <<"Missing client_id parameter">>], 400, FEDCM_HEADERS)

RouteNotSupportedResponse ==
  NextResponse([error |-> <<"Route not supported">>], 405, FEDCM_HEADERS)

\* variant: the 415 response built without the policy headers
InvalidContentTypeResponse_NoHeaders ==
  NextResponse(
    [error |-> <<"Invalid content type. Expected application/x-www-form-urlencoded">>],
    415, NoHeaders)

InvalidContentTypeResponse ==
  NextResponse(
    [error |-> <<"Invalid content type. Expected application/x-www-form-urlencoded">>],
    415, FEDCM_HEADERS)

MissingFieldsResponse ==
  NextResponse(
    [error |-> <<"Missing required fields: account_id, client_id, nonce, and disclosure_text_shown">>],
    400, FEDCM_HEADERS)

InvalidAccountResponse ==
  NextResponse([error |-> <<"Invalid account_id">>], 400, FEDCM_HEADERS)

\* catch (error): "Invalid request: " + error
CatchResponse(error) ==
  NextResponse([error |-> <<"Invalid request: ", error>>], 400, FEDCM_HEADERS)

----------------------------------------------------------------------------
(* Helpers of the route module                                             *)

\* JavaScript truthiness of a string-or-null value
Truthy(v) == v # Null /\ v # ""

\* variant: an absent Sec-Fetch-Dest header is let through
validateFedCMRequest_NullPasses(request, expectedDest) ==
  LET secFetchDest == request.secFetchDest IN
  IF env.NODE_ENV = "development" /\ env.BYPASS_SEC_FETCH_CHECK = "true"
  THEN TRUE
  ELSE secFetchDest = Null \/ secFetchDest = expectedDest

\* variant: the bypass flag alone, in any environment, disables the check
validateFedCMRequest_FlagOnly(request, expectedDest) ==
  LET secFetchDest == request.secFetchDest IN
  IF env.NODE_ENV = "development" \/ env.BYPASS_SEC_FETCH_CHECK = "true"
  THEN TRUE
  ELSE secFetchDest = expectedDest

validateFedCMRequest(request, expectedDest) ==
  LET secFetchDest == request.secFetchDest IN
  IF env.NODE_ENV = "development" /\ env.BYPASS_SEC_FETCH_CHECK = "true"
  THEN TRUE
  ELSE secFetchDest = expectedDest

getBaseUrl(request) ==
  LET isHttps == request.https
      protocol == IF isHttps THEN "https" ELSE "http"
  IN IF Truthy(env.NEXT_PUBLIC_APP_FQDN)
     THEN <<protocol, "://", env.NEXT_PUBLIC_APP_FQDN>>
     ELSE <<>>

validRoutes ==
  <<"manifest", "accounts", "client-metadata", "disconnect", "token", "config.json">>

isValidFedCMRoute(route) ==
  \E i \in 1..Len(validRoutes) : validRoutes[i] = route

\* the tokens of a content-type header value
Tokens(s) ==
  IF s = "application/x-www-form-urlencoded; charset=UTF-8"
  THEN <<"application/x-www-form-urlencoded", "; charset=UTF-8">>
  ELSE <<s>>

\* String.prototype.includes
Includes(s, sub) == \E i \in 1..Len(Tokens(s)) : Tokens(s)[i] = sub

\* variant: an absent content-type header is let through
isFormEncoded_NullOk(contentType) ==
  contentType = Null \/ Includes(contentType, "application/x-www-form-urlencoded")

\* contentType?.includes("application/x-www-form-urlencoded")
isFormEncoded(contentType) ==
  contentType # Null /\ Includes(contentType, "application/x-www-form-urlencoded")

----------------------------------------------------------------------------
(* Collaborators from @/lib/fedcm                                          *)

getManifestResponse(baseUrl) ==
  [ accounts_endpoint |-> baseUrl \o <<"/api/fedcm/accounts">>,
    client_metadata_endpoint |-> baseUrl \o <<"/api/fedcm/client-metadata">>,
    id_assertion_endpoint |-> baseUrl \o <<"/api/fedcm/token">>,
    disconnect_endpoint |-> baseUrl \o <<"/api/fedcm/disconnect">> ]

\* the account list that the library holds at module scope
MockAccounts ==
  [ accounts |-> << [id |-> "acc1", name |-> "Alice"],
                    [id |-> "acc2", name |-> "Bob"] >> ]

getMockAccounts == directory

getClientMetadata(clientId) ==
  IF clientId = "mockfedcm"
  THEN [ clientId |-> clientId, links |-> "mock" ]
  ELSE [ clientId |-> clientId, links |-> "default" ]

generateToken(accountId, clientId, salt) ==
  [ account_id |-> accountId, client_id |-> clientId, salt |-> salt ]

----------------------------------------------------------------------------
(* The handlers, one operator per stretch of code between two awaits.      *)
(* An outcome is the handler's next position, the response it returned     *)
(* (if it returned), the calls it made in that stretch, in order, and the  *)
(* result of the Origin Guard if it was evaluated.                         *)

Finish(response, calls, g) ==
  [ pc |-> "done", resp |-> response, trace |-> calls, guard |-> g ]

Suspend(at, calls, g) ==
  [ pc |-> at, resp |-> NoResponse, trace |-> calls, guard |-> g ]

\* variant: the switch without the config.json case label
GET_Switch_NoConfigJson(request) ==
  CASE request.route = "manifest" ->
         LET baseUrl == getBaseUrl(request) IN
         Finish(NextResponse(getManifestResponse(baseUrl), 200, FEDCM_HEADERS),
                <<"getBaseUrl", "getManifestResponse">>, "none")
    [] request.route = "accounts" ->
         IF ~validateFedCMRequest(request, "webidentity")
         THEN Finish(UnauthorizedResponse, <<"validateFedCMRequest">>, "fail")
         ELSE Suspend("GET_accounts",
                      <<"validateFedCMRequest", "getMockAccounts">>, "pass")
    [] request.route = "client-metadata" ->
         IF ~validateFedCMRequest(request, "webidentity")
         THEN Finish(UnauthorizedResponse, <<"validateFedCMRequest">>, "fail")
         ELSE LET clientId == IF Truthy(request.clientIdQuery)
                              THEN request.clientIdQuery ELSE "mockfedcm"
              IN IF ~Truthy(clientId)
                 THEN Finish(MissingClientIdResponse,
                             <<"validateFedCMRequest">>, "pass")
                 ELSE Finish(NextResponse(getClientMetadata(clientId), 200,
                                          FEDCM_HEADERS),
                             <<"validateFedCMRequest", "getClientMetadata">>,
                             "pass")
    [] request.route = "disconnect" ->
         IF ~validateFedCMRequest(request, "webidentity")
         THEN Finish(UnauthorizedResponse, <<"validateFedCMRequest">>, "fail")
         ELSE Finish(NextResponse([success |-> TRUE], 200, FEDCM_HEADERS),
                     <<"validateFedCMRequest">>, "pass")
    [] OTHER ->
         Finish(RouteNotSupportedResponse, <<>>, "none")

\* variant: client_id taken from the query without the default
GET_Switch_NoDefaultClient(request) ==
  CASE request.route \in {"config.json", "manifest"} ->
         LET baseUrl == getBaseUrl(request) IN
         Finish(NextResponse(getManifestResponse(baseUrl), 200, FEDCM_HEADERS),
                <<"getBaseUrl", "getManifestResponse">>, "none")
    [] request.route = "accounts" ->
         IF ~validateFedCMRequest(request, "webidentity")
         THEN Finish(UnauthorizedResponse, <<"validateFedCMRequest">>, "fail")
         ELSE Suspend("GET_accounts",
                      <<"validateFedCMRequest", "getMockAccounts">>, "pass")
    [] request.route = "client-metadata" ->
         IF ~validateFedCMRequest(request, "webidentity")
         THEN Finish(UnauthorizedResponse, <<"validateFedCMRequest">>, "fail")
         ELSE LET clientId == request.clientIdQuery
              IN IF ~Truthy(clientId)
                 THEN Finish(MissingClientIdResponse,
                             <<"validateFedCMRequest">>, "pass")
                 ELSE Finish(NextResponse(getClientMetadata(clientId), 200,
                                          FEDCM_HEADERS),
                             <<"validateFedCMRequest", "getClientMetadata">>,
                             "pass")
    [] request.route = "disconnect" ->
         IF ~validateFedCMRequest(request, "webidentity")
         THEN Finish(UnauthorizedResponse, <<"validateFedCMRequest">>, "fail")
         ELSE Finish(NextResponse([success |-> TRUE], 200, FEDCM_HEADERS),
                     <<"validateFedCMRequest">>, "pass")
    [] OTHER ->
         Finish(RouteNotSupportedResponse, <<>>, "none")

\* GET: switch (route)
GET_Switch(request) ==
  CASE request.route \in {"config.json", "manifest"} ->
         LET baseUrl == getBaseUrl(request) IN
         Finish(NextResponse(getManifestResponse(baseUrl), 200, FEDCM_HEADERS),
                <<"getBaseUrl", "getManifestResponse">>, "none")
    [] request.route = "accounts" ->
         IF ~validateFedCMRequest(request, "webidentity")
         THEN Finish(UnauthorizedResponse, <<"validateFedCMRequest">>, "fail")
         ELSE Suspend("GET_accounts",
                      <<"validateFedCMRequest", "getMockAccounts">>, "pass")
    [] request.route = "client-metadata" ->
         IF ~validateFedCMRequest(request, "webidentity")
         THEN Finish(UnauthorizedResponse, <<"validateFedCMRequest">>, "fail")
         ELSE LET clientId == IF Truthy(request.clientIdQuery)
                              THEN request.clientIdQuery ELSE "mockfedcm"
              IN IF ~Truthy(clientId)
                 THEN Finish(MissingClientIdResponse,
                             <<"validateFedCMRequest">>, "pass")
                 ELSE Finish(NextResponse(getClientMetadata(clientId), 200,
                                          FEDCM_HEADERS),
                             <<"validateFedCMRequest", "getClientMetadata">>,
                             "pass")
    [] request.route = "disconnect" ->
         IF ~validateFedCMRequest(request, "webidentity")
         THEN Finish(UnauthorizedResponse, <<"validateFedCMRequest">>, "fail")
         ELSE Finish(NextResponse([success |-> TRUE], 200, FEDCM_HEADERS),
                     <<"validateFedCMRequest">>, "pass")
    [] OTHER ->
         Finish(RouteNotSupportedResponse, <<>>, "none")

\* variant: the route is validated before the preflight test
GET_Enter_RouteFirst(request) ==
  IF ~isValidFedCMRoute(request.route)
  THEN Finish(InvalidRouteResponse, <<"isValidFedCMRoute">>, "none")
  ELSE IF request.method = "OPTIONS"
       THEN Finish(PreflightResponse, <<"isValidFedCMRoute">>, "none")
       ELSE LET o == GET_Switch(request) IN
            [o EXCEPT !.trace = <<"isValidFedCMRoute">> \o @]

\* GET: from the resolution of props.params to the first await or return
GET_Enter(request) ==
  IF request.method = "OPTIONS"
  THEN Finish(PreflightResponse, <<>>, "none")
  ELSE IF ~isValidFedCMRoute(request.route)
       THEN Finish(InvalidRouteResponse, <<"isValidFedCMRoute">>, "none")
       ELSE LET o == GET_Switch(request) IN
            [o EXCEPT !.trace = <<"isValidFedCMRoute">> \o @]

\* variant: the account lookup throws and nothing catches it
GET_AfterAccounts_Throws(accounts) ==
  [ pc |-> "thrown", resp |-> NoResponse, trace |-> <<>>, guard |-> "pass" ]

\* GET accounts: after await getMockAccounts()
GET_AfterAccounts(accounts) ==
  Finish(NextResponse(accounts, 200, FEDCM_HEADERS), <<>>, "pass")

\* variant: the token path without the Origin Guard
POST_Token_NoGuard(request) ==
  LET contentType == request.contentType IN
  IF ~isFormEncoded(contentType)
  THEN Finish(InvalidContentTypeResponse, <<"contentType">>, "none")
  ELSE Suspend("POST_session", <<"contentType", "getUserFromCookie">>, "none")

\* POST token: from the guard to await getUserFromCookie()
POST_Token(request) ==
  IF ~validateFedCMRequest(request, "webidentity")
  THEN Finish(UnauthorizedResponse, <<"validateFedCMRequest">>, "fail")
  ELSE LET contentType == request.contentType IN
       IF ~isFormEncoded(contentType)
       THEN Finish(InvalidContentTypeResponse,
                   <<"validateFedCMRequest", "contentType">>, "pass")
       ELSE Suspend("POST_session",
                    <<"validateFedCMRequest", "contentType", "getUserFromCookie">>,
                    "pass")

\* variant: every supported route is taken to the token path
POST_Enter_NoRouteTest(request) ==
  IF request.method = "OPTIONS"
  THEN Finish(PreflightResponse, <<>>, "none")
  ELSE IF ~isValidFedCMRoute(request.route)
       THEN Finish(InvalidRouteResponse, <<"isValidFedCMRoute">>, "none")
       ELSE LET o == POST_Token(request) IN
            [o EXCEPT !.trace = <<"isValidFedCMRoute">> \o @]

\* POST: from the resolution of props.params to the first await or return
POST_Enter(request) ==
  IF request.method = "OPTIONS"
  THEN Finish(PreflightResponse, <<>>, "none")
  ELSE IF ~isValidFedCMRoute(request.route)
       THEN Finish(InvalidRouteResponse, <<"isValidFedCMRoute">>, "none")
       ELSE IF request.route = "token"
            THEN LET o == POST_Token(request) IN
                 [o EXCEPT !.trace = <<"isValidFedCMRoute">> \o @]
            ELSE Finish(RouteNotSupportedResponse, <<"isValidFedCMRoute">>, "none")

\* POST token: after await getUserFromCookie(), to await request.formData()
POST_AfterSession(username) ==
  IF username = Throws
  THEN Finish(CatchResponse("getUserFromCookie failed"), <<>>, "pass")
  ELSE IF ~Truthy(username)
       THEN Finish(UnauthorizedResponse, <<>>, "pass")
       ELSE Suspend("POST_formData", <<"formData">>, "pass")

\* variant: the presence tests joined with && instead of ||
missingFields_AllMissing(fd) ==
  /\ ~Truthy(fd.account_id)
  /\ ~Truthy(fd.client_id)
  /\ ~Truthy(fd.nonce)
  /\ ~Truthy(fd.disclosure_text_shown)

\* variant: nonce left out of the presence test
missingFields_NoNonce(fd) ==
  \/ ~Truthy(fd.account_id)
  \/ ~Truthy(fd.client_id)
  \/ ~Truthy(fd.disclosure_text_shown)

\* !accountId || !clientId || !nonce || !disclosureTextShown
missingFields(fd) ==
  \/ ~Truthy(fd.account_id)
  \/ ~Truthy(fd.client_id)
  \/ ~Truthy(fd.nonce)
  \/ ~Truthy(fd.disclosure_text_shown)

\* variant: a rejected formData() is not caught and leaves the handler
POST_AfterFormData_Uncaught(fd) ==
  IF fd.status = "threw"
  THEN [ pc |-> "thrown", resp |-> NoResponse, trace |-> <<>>, guard |-> "pass" ]
  ELSE IF missingFields(fd)
       THEN Finish(MissingFieldsResponse, <<>>, "pass")
       ELSE Suspend("POST_accounts", <<"getMockAccounts">>, "pass")

\* POST token: after await request.formData(), to await getMockAccounts()
POST_AfterFormData(fd) ==
  IF fd.status = "threw"
  THEN Finish(CatchResponse("formData failed"), <<>>, "pass")
  ELSE IF missingFields(fd)
       THEN Finish(MissingFieldsResponse, <<>>, "pass")
       ELSE Suspend("POST_accounts", <<"getMockAccounts">>, "pass")

\* variant: the predicate tests that an account has an id, not which id
isValidAccount_AnyId(accounts, account_id) ==
  \E i \in 1..Len(accounts.accounts) : Truthy(accounts.accounts[i].id)

\* accounts.accounts.some((account) => account.id === data.account_id)
isValidAccount(accounts, account_id) ==
  \E i \in 1..Len(accounts.accounts) : accounts.accounts[i].id = account_id

\* variant: no token unless the disclosure text was shown
POST_AfterAccounts_NeedsDisclosure(fd, accounts, salt) ==
  LET data == [ account_id |-> fd.account_id,
                client_id |-> fd.client_id,
                nonce |-> fd.nonce,
                disclosure_text_shown |-> (fd.disclosure_text_shown = "true") ]
  IN IF ~isValidAccount(accounts, data.account_id) \/ ~data.disclosure_text_shown
     THEN Finish(InvalidAccountResponse, <<>>, "pass")
     ELSE LET token == generateToken(data.account_id, data.client_id, salt) IN
          Finish(NextResponse([token |-> token], 200, FEDCM_HEADERS),
                 <<"generateToken">>, "pass")

\* POST token: after await getMockAccounts(), to the return
POST_AfterAccounts(fd, accounts, salt) ==
  LET data == [ account_id |-> fd.account_id,
                client_id |-> fd.client_id,
                nonce |-> fd.nonce,
                disclosure_text_shown |-> (fd.disclosure_text_shown = "true") ]
  IN IF ~isValidAccount(accounts, data.account_id)
     THEN Finish(InvalidAccountResponse, <<>>, "pass")
     ELSE LET token == generateToken(data.account_id, data.client_id, salt) IN
          Finish(NextResponse([token |-> token], 200, FEDCM_HEADERS),
                 <<"generateToken">>, "pass")

----------------------------------------------------------------------------
(* State machine                                                           *)

UnreadForm ==
  [ status |-> "unread", account_id |-> Null, client_id |-> Null,
    nonce |-> Null, disclosure_text_shown |-> Null ]

ThrewForm == [ UnreadForm EXCEPT !.status = "threw" ]

FormDatas ==
  { [ status |-> "read", account_id |-> a, client_id |-> c,
      nonce |-> n, disclosure_text_shown |-> d ] :
      a \in AccountIdValues, c \in ClientIdValues,
      n \in NonceValues, d \in DisclosureValues }

NoRequest ==
  [ handler |-> "none", method |-> Null, route |-> Null, secFetchDest |-> Null,
    contentType |-> Null, clientIdQuery |-> Null, session |-> Null,
    https |-> FALSE ]

Envs ==
  [ NODE_ENV : NodeEnvs, BYPASS_SEC_FETCH_CHECK : BypassFlags,
    NEXT_PUBLIC_APP_FQDN : Fqdns ]

Slots == 1..NumSlots

\* the locals of one invocation of GET or POST
IdleFrame ==
  [ pc |-> "idle", req |-> NoRequest, resp |-> NoResponse, trace |-> <<>>,
    guard |-> "none", formData |-> UnreadForm ]

SlotsIdle == slots = [ s \in Slots |-> IdleFrame ]

\* the single-request handler at rest
SeqIdle ==
  /\ pc = "idle"
  /\ req = NoRequest
  /\ resp = NoResponse
  /\ trace = <<>>
  /\ guard = "none"
  /\ formData = UnreadForm

\* useState initial values, after the mount effect has stored the nonce
FormMounted ==
  /\ config = [ configURL |-> "", clientId |-> "", nonce |-> "n1" ]
  /\ jsonOutput = FALSE
  /\ autoTest = FALSE
  /\ countdown = None
  /\ testTimerId = None
  /\ timers = <<>>
  /\ cleanup = None
  /\ effectPending = FALSE
  /\ navigations = <<>>

Init ==
  /\ SlotsIdle
  /\ FormMounted
  /\ env \in Envs
  /\ directory = MockAccounts
  /\ pc = "idle"
  /\ req = NoRequest
  /\ resp = NoResponse
  /\ trace = <<>>
  /\ guard = "none"
  /\ formData = UnreadForm

Apply(o) ==
  /\ pc' = o.pc
  /\ resp' = o.resp
  /\ trace' = trace \o o.trace
  /\ guard' = o.guard

\* the framework calls GET(request, props); the handler awaits props.params
GET_Receive ==
  /\ pc = "idle"
  /\ \E m \in GetMethods, r \in Routes, d \in SecFetchDests,
        q \in ClientIdQueries, s \in Sessions, h \in BOOLEAN :
       req' = [ handler |-> "GET", method |-> m, route |-> r,
                secFetchDest |-> d, contentType |-> Null,
                clientIdQuery |-> q, session |-> s, https |-> h ]
  /\ pc' = "GET_params"
  /\ UNCHANGED <<slots, formVars, env, directory, resp, trace, guard, formData>>

\* variant: a served disconnect empties the account list
GET_Start_DisconnectClears ==
  /\ pc = "GET_params"
  /\ Apply(GET_Enter(req))
  /\ directory' = IF req.route = "disconnect" /\ GET_Enter(req).resp.status = 200
                  THEN [accounts |-> <<>>]
                  ELSE directory
  /\ UNCHANGED <<slots, formVars, env, req, formData>>

GET_Start ==
  /\ pc = "GET_params"
  /\ Apply(GET_Enter(req))
  /\ UNCHANGED <<slots, formVars, env, directory, req, formData>>

GET_Accounts ==
  /\ pc = "GET_accounts"
  /\ Apply(GET_AfterAccounts(getMockAccounts))
  /\ UNCHANGED <<slots, formVars, env, directory, req, formData>>

\* the framework calls POST(request, props); the handler awaits props.params
POST_Receive ==
  /\ pc = "idle"
  /\ \E m \in PostMethods, r \in Routes, d \in SecFetchDests,
        c \in ContentTypes, s \in Sessions :
       req' = [ handler |-> "POST", method |-> m, route |-> r,
                secFetchDest |-> d, contentType |-> c,
                clientIdQuery |-> Null, session |-> s, https |-> FALSE ]
  /\ pc' = "POST_params"
  /\ UNCHANGED <<slots, formVars, env, directory, resp, trace, guard, formData>>

POST_Start ==
  /\ pc = "POST_params"
  /\ Apply(POST_Enter(req))
  /\ UNCHANGED <<slots, formVars, env, directory, req, formData>>

\* getUserFromCookie() settles with the user the request's cookie names
POST_Session ==
  /\ pc = "POST_session"
  /\ Apply(POST_AfterSession(req.session))
  /\ UNCHANGED <<slots, formVars, env, directory, req, formData>>

\* request.formData() settles with the submitted form, or rejects
POST_FormData ==
  /\ pc = "POST_formData"
  /\ \E fd \in FormDatas \cup {ThrewForm} :
       /\ formData' = fd
       /\ Apply(POST_AfterFormData(fd))
  /\ UNCHANGED <<slots, formVars, env, directory, req>>

POST_Accounts ==
  /\ pc = "POST_accounts"
  /\ \E salt \in 1..MaxSalt :
       Apply(POST_AfterAccounts(formData, getMockAccounts, salt))
  /\ UNCHANGED <<slots, formVars, env, directory, req, formData>>

\* the response is handed to the framework; the handler keeps nothing
Respond ==
  /\ pc = "done"
  /\ pc' = "idle"
  /\ req' = NoRequest
  /\ resp' = NoResponse
  /\ trace' = <<>>
  /\ guard' = "none"
  /\ formData' = UnreadForm
  /\ UNCHANGED <<slots, formVars, env, directory>>

Next ==
  \/ GET_Receive
  \/ GET_Start
  \/ GET_Accounts
  \/ POST_Receive
  \/ POST_Start
  \/ POST_Session
  \/ POST_FormData
  \/ POST_Accounts
  \/ Respond

Spec == Init /\ [][Next]_vars

\* a continuation whose awaited promise has settled is run by the event loop
HandlerStep ==
  \/ GET_Start
  \/ GET_Accounts
  \/ POST_Start
  \/ POST_Session
  \/ POST_FormData
  \/ POST_Accounts

LiveSpec == Init /\ [][Next]_vars /\ WF_vars(HandlerStep)

----------------------------------------------------------------------------
(* Concurrent requests: the hosting runtime calls GET and POST again while *)
(* earlier calls are suspended at an await.  Each call has its own frame;  *)
(* the code between two awaits runs without interruption.                  *)

ConcEnvs ==
  { e \in Envs : /\ e.NEXT_PUBLIC_APP_FQDN = "idp.example"
                 /\ \/ (e.NODE_ENV = "production" /\ e.BYPASS_SEC_FETCH_CHECK = Null)
                    \/ (e.NODE_ENV = "development" /\ e.BYPASS_SEC_FETCH_CHECK = "true") }

ConcGetRequests ==
  { [ handler |-> "GET", method |-> "GET", route |-> r, secFetchDest |-> d,
      contentType |-> Null, clientIdQuery |-> Null, session |-> Null,
      https |-> TRUE ] :
      r \in {"accounts", "manifest"}, d \in {Null, "webidentity"} }

ConcPostRequests ==
  { [ handler |-> "POST", method |-> "POST", route |-> "token",
      secFetchDest |-> d, contentType |-> c, clientIdQuery |-> Null,
      session |-> u, https |-> FALSE ] :
      d \in {Null, "webidentity"},
      c \in {"application/json", "application/x-www-form-urlencoded"},
      u \in {Null, "alice", Throws} }

ConcForms ==
  { fd \in FormDatas \cup {ThrewForm} :
      \/ fd.status = "threw"
      \/ /\ fd.account_id \in {"acc1", "doesnotexist"}
         /\ fd.client_id = "demo"
         /\ fd.nonce \in {Null, "abc"}
         /\ fd.disclosure_text_shown = "true" }

\* variant: the locals are kept at module scope, one frame for every call
Frame_Shared(s) == slots[1]

\* the locals that invocation s reads
Frame(s) == slots[s]

ApplyTo(s, o) ==
  slots' = [ slots EXCEPT ![s] =
               [ @ EXCEPT !.pc = o.pc, !.resp = o.resp,
                          !.trace = @ \o o.trace, !.guard = o.guard ] ]

ConcInit ==
  /\ SlotsIdle
  /\ FormMounted
  /\ SeqIdle
  /\ env \in ConcEnvs
  /\ directory = MockAccounts

Conc_GET_Receive ==
  /\ \E s \in Slots, r \in ConcGetRequests :
       /\ slots[s].pc = "idle"
       /\ slots' = [ slots EXCEPT ![s].req = r, ![s].pc = "GET_params" ]
  /\ UNCHANGED <<formVars, seqVars, env, directory>>

Conc_GET_Start ==
  /\ \E s \in Slots :
       /\ slots[s].pc = "GET_params"
       /\ ApplyTo(s, GET_Enter(Frame(s).req))
  /\ UNCHANGED <<formVars, seqVars, env, directory>>

Conc_GET_Accounts ==
  /\ \E s \in Slots :
       /\ slots[s].pc = "GET_accounts"
       /\ ApplyTo(s, GET_AfterAccounts(getMockAccounts))
  /\ UNCHANGED <<formVars, seqVars, env, directory>>

Conc_POST_Receive ==
  /\ \E s \in Slots, r \in ConcPostRequests :
       /\ slots[s].pc = "idle"
       /\ slots' = [ slots EXCEPT ![s].req = r, ![s].pc = "POST_params" ]
  /\ UNCHANGED <<formVars, seqVars, env, directory>>

Conc_POST_Start ==
  /\ \E s \in Slots :
       /\ slots[s].pc = "POST_params"
       /\ ApplyTo(s, POST_Enter(Frame(s).req))
  /\ UNCHANGED <<formVars, seqVars, env, directory>>

Conc_POST_Session ==
  /\ \E s \in Slots :
       /\ slots[s].pc = "POST_session"
       /\ ApplyTo(s, POST_AfterSession(Frame(s).req.session))
  /\ UNCHANGED <<formVars, seqVars, env, directory>>

Conc_POST_FormData ==
  /\ \E s \in Slots, fd \in ConcForms :
       /\ slots[s].pc = "POST_formData"
       /\ LET o == POST_AfterFormData(fd) IN
          slots' = [ slots EXCEPT ![s] =
                       [ @ EXCEPT !.formData = fd, !.pc = o.pc, !.resp = o.resp,
                                  !.trace = @ \o o.trace, !.guard = o.guard ] ]
  /\ UNCHANGED <<formVars, seqVars, env, directory>>

Conc_POST_Accounts ==
  /\ \E s \in Slots, salt \in 1..MaxSalt :
       /\ slots[s].pc = "POST_accounts"
       /\ ApplyTo(s, POST_AfterAccounts(Frame(s).formData, getMockAccounts, salt))
  /\ UNCHANGED <<formVars, seqVars, env, directory>>

Conc_Respond ==
  /\ \E s \in Slots :
       /\ slots[s].pc = "done"
       /\ slots' = [ slots EXCEPT ![s] = IdleFrame ]
  /\ UNCHANGED <<formVars, seqVars, env, directory>>

ConcNext ==
  \/ Conc_GET_Receive
  \/ Conc_GET_Start
  \/ Conc_GET_Accounts
  \/ Conc_POST_Receive
  \/ Conc_POST_Start
  \/ Conc_POST_Session
  \/ Conc_POST_FormData
  \/ Conc_POST_Accounts
  \/ Conc_Respond

ConcSpec == ConcInit /\ [][ConcNext]_vars

----------------------------------------------------------------------------
(* The configuration form (FedCMRPForm).  A handler and the render it       *)
(* causes are one step; the effects of that render run in the next step,    *)
(* before any other event is handled.  timers holds, for every timeout      *)
(* that is set and neither fired nor cleared, the countdown it captured;    *)
(* cleanup is the timeout that the cleanup of the last effect run clears.   *)

ConfigURLs == {"", "https://idp.example/config.json"}
FormClientIds == {"", "rp1"}

\* clearTimeout: the timeout, if still set, is removed
Clear(ts, v) ==
  IF \E i \in 1..Len(ts) : ts[i] = v
  THEN LET i == CHOOSE k \in 1..Len(ts) : ts[k] = v
       IN SubSeq(ts, 1, i - 1) \o SubSeq(ts, i + 1, Len(ts))
  ELSE ts

\* handleTest: router.push(`/rp/action?${params}`)
handleTest(by) ==
  Append(navigations,
         [ url |-> <<"/rp/action?", config.configURL, config.clientId, config.nonce>>,
           by |-> by ])

\* onChange of the Config URL and Client ID inputs: setConfig
ChangeConfig ==
  /\ ~effectPending
  /\ \E u \in ConfigURLs, c \in FormClientIds :
       /\ <<u, c>> # <<config.configURL, config.clientId>>
       /\ \/ (u = config.configURL) \/ (c = config.clientId)
       /\ config' = [ config EXCEPT !.configURL = u, !.clientId = c ]
  /\ effectPending' = TRUE
  /\ UNCHANGED <<jsonOutput, autoTest, countdown, testTimerId, timers, cleanup,
                 navigations>>
  /\ UNCHANGED <<slots, seqVars, env, directory>>

\* onChange of the Auto Test toggle: setAutoTest
ToggleAutoTest ==
  /\ ~effectPending
  /\ autoTest' = ~autoTest
  /\ UNCHANGED <<config, jsonOutput, countdown, testTimerId, timers, cleanup,
                 effectPending, navigations>>
  /\ UNCHANGED <<slots, seqVars, env, directory>>

\* onSubmit of the form, whose two text inputs are required
handleSubmit ==
  /\ ~effectPending
  /\ config.configURL # "" /\ config.clientId # ""
  /\ Len(navigations) < MaxNavigations
  /\ testTimerId' = None
  /\ timers' = IF testTimerId # None THEN Clear(timers, testTimerId) ELSE timers
  /\ jsonOutput' = TRUE
  /\ IF autoTest
     THEN /\ countdown' = CountdownStart
          /\ effectPending' = (countdown # CountdownStart)
     ELSE UNCHANGED <<countdown, effectPending>>
  /\ UNCHANGED <<config, autoTest, cleanup, navigations>>
  /\ UNCHANGED <<slots, seqVars, env, directory>>

\* onClick of Cancel, shown while a countdown is displayed
handleCancelTest ==
  /\ ~effectPending
  /\ jsonOutput /\ countdown # None
  /\ countdown' = None
  /\ effectPending' = TRUE
  /\ UNCHANGED <<config, jsonOutput, autoTest, testTimerId, timers, cleanup,
                 navigations>>
  /\ UNCHANGED <<slots, seqVars, env, directory>>

\* onClick of Test Configuration, shown when no countdown is displayed
TestClick ==
  /\ ~effectPending
  /\ jsonOutput /\ countdown = None
  /\ Len(navigations) < MaxNavigations
  /\ navigations' = handleTest("click")
  /\ UNCHANGED <<config, jsonOutput, autoTest, countdown, testTimerId, timers,
                 cleanup, effectPending>>
  /\ UNCHANGED <<slots, seqVars, env, directory>>

\* a timeout fires after one second: setCountdown(countdown - 1)
Tick ==
  /\ ~effectPending
  /\ \E i \in 1..Len(timers) :
       /\ timers' = SubSeq(timers, 1, i - 1) \o SubSeq(timers, i + 1, Len(timers))
       /\ countdown' = timers[i] - 1
       /\ effectPending' = (timers[i] - 1 # countdown)
  /\ UNCHANGED <<config, jsonOutput, autoTest, testTimerId, cleanup, navigations>>
  /\ UNCHANGED <<slots, seqVars, env, directory>>

\* variant: the countdown effect returns no cleanup
CountdownEffect_NoCleanup ==
  /\ effectPending
  /\ IF countdown # None /\ countdown > 0
     THEN /\ timers' = Append(timers, countdown)
          /\ cleanup' = None
          /\ effectPending' = FALSE
          /\ UNCHANGED <<countdown, navigations>>
     ELSE IF countdown = 0
          THEN /\ navigations' = handleTest("countdown")
               /\ countdown' = None
               /\ effectPending' = TRUE
               /\ cleanup' = None
               /\ UNCHANGED timers
          ELSE /\ cleanup' = None
               /\ effectPending' = FALSE
               /\ UNCHANGED <<timers, countdown, navigations>>
  /\ UNCHANGED <<config, jsonOutput, autoTest, testTimerId>>
  /\ UNCHANGED <<slots, seqVars, env, directory>>

\* useEffect(..., [countdown, handleTest]): the cleanup of the last run,
\* then the effect
CountdownEffect ==
  /\ effectPending
  /\ LET cleared == IF cleanup # None THEN Clear(timers, cleanup) ELSE timers IN
     IF countdown # None /\ countdown > 0
     THEN /\ timers' = Append(cleared, countdown)
          /\ cleanup' = countdown
          /\ effectPending' = FALSE
          /\ UNCHANGED <<countdown, navigations>>
     ELSE IF countdown = 0
          THEN /\ navigations' = handleTest("countdown")
               /\ countdown' = None
               /\ effectPending' = TRUE
               /\ cleanup' = None
               /\ timers' = cleared
          ELSE /\ cleanup' = None
               /\ effectPending' = FALSE
               /\ timers' = cleared
               /\ UNCHANGED <<countdown, navigations>>
  /\ UNCHANGED <<config, jsonOutput, autoTest, testTimerId>>
  /\ UNCHANGED <<slots, seqVars, env, directory>>

FormInit ==
  /\ SlotsIdle
  /\ FormMounted
  /\ SeqIdle
  /\ env = [ NODE_ENV |-> "production", BYPASS_SEC_FETCH_CHECK |-> Null,
             NEXT_PUBLIC_APP_FQDN |-> "idp.example" ]
  /\ directory = MockAccounts

FormNext ==
  \/ ChangeConfig
  \/ ToggleAutoTest
  \/ handleSubmit
  \/ handleCancelTest
  \/ TestClick
  \/ Tick
  \/ CountdownEffect

FormSpec == FormInit /\ [][FormNext]_vars

TypeOK ==
  /\ env \in Envs
  /\ pc \in {"idle", "GET_params", "GET_accounts", "POST_params",
             "POST_session", "POST_formData", "POST_accounts", "done"}
  /\ guard \in {"none", "pass", "fail"}
  /\ resp.status \in {0, 200, 204, 400, 401, 405, 415}

----------------------------------------------------------------------------
(* Vocabulary of the properties, stated on the request and the             *)
(* environment only.                                                       *)

Done == pc = "done"

BypassMode ==
  env.NODE_ENV = "development" /\ env.BYPASS_SEC_FETCH_CHECK = "true"

GuardHolds == BypassMode \/ req.secFetchDest = "webidentity"

FormEncoded ==
  req.contentType \in {"application/x-www-form-urlencoded",
                       "application/x-www-form-urlencoded; charset=UTF-8"}

SessionUser == req.session \notin {Null, "", Throws}

Given(v) == v \notin {Null, ""}

FieldsGiven ==
  /\ formData.status = "read"
  /\ Given(formData.account_id)
  /\ Given(formData.client_id)
  /\ Given(formData.nonce)
  /\ Given(formData.disclosure_text_shown)

AccountKnown == formData.account_id \in {"acc1", "acc2"}

TokenRequest ==
  req.handler = "POST" /\ req.method = "POST" /\ req.route = "token"

GuardedGet ==
  /\ req.handler = "GET"
  /\ req.method # "OPTIONS"
  /\ req.route \in {"accounts", "client-metadata", "disconnect"}

ManifestGet ==
  /\ req.handler = "GET"
  /\ req.method # "OPTIONS"
  /\ req.route \in {"manifest", "config.json"}

IsError(status, text) ==
  resp.status = status /\ resp.body = [error |-> <<text>>]

IsCaught ==
  /\ resp.status = 400
  /\ DOMAIN resp.body = {"error"}
  /\ Len(resp.body.error) = 2
  /\ resp.body.error[1] = "Invalid request: "

HasToken == "token" \in DOMAIN resp.body

Providers ==
  {"getUserFromCookie", "formData", "getMockAccounts", "getClientMetadata",
   "generateToken"}

IsPrefix(s, t) ==
  Len(s) <= Len(t) /\ \A i \in 1..Len(s) : s[i] = t[i]

PolicyHeaders ==
  ("Access-Control-Allow-Origin" :> "*") @@
  ("Access-Control-Allow-Methods" :> "GET, POST, OPTIONS") @@
  ("Access-Control-Allow-Headers" :>
     "Content-Type, Sec-Fetch-Dest, Authorization, X-Requested-With") @@
  ("Access-Control-Allow-Credentials" :> "true") @@
  ("Access-Control-Max-Age" :> "86400") @@
  ("Content-Type" :> "application/json")

----------------------------------------------------------------------------
(* C1 *)

\* C1 as stated: a token request that passed the Origin Guard is answered by
\* the failure of the first precondition, in the order session (401),
\* content type (415), fields (400), account (400), that does not hold
\* (lookups that throw set aside).
C1_SessionFirst ==
  (Done /\ TokenRequest /\ GuardHolds /\ req.session # Throws
        /\ formData.status # "threw") =>
    IF ~SessionUser THEN IsError(401, "Unauthorized")
    ELSE IF ~FormEncoded
         THEN IsError(415, "Invalid content type. Expected application/x-www-form-urlencoded")
    ELSE IF ~FieldsGiven
         THEN IsError(400, "Missing required fields: account_id, client_id, nonce, and disclosure_text_shown")
    ELSE IF ~AccountKnown THEN IsError(400, "Invalid account_id")
    ELSE resp.status = 200

\* C1 (amended): a token request that passed the Origin Guard is checked in
\* the order content type (415), session lookup (401), four fields (400),
\* account id (400), and is answered by the first of these that fails; a
\* session lookup or body read that throws is answered 400 "Invalid request"
\* at its place in that order.  The handler's calls follow the same order.
C1_ContentTypeFirst ==
  /\ (req.handler = "POST" /\ req.method = "POST") =>
       IsPrefix(trace, <<"isValidFedCMRoute", "validateFedCMRequest",
                         "contentType", "getUserFromCookie", "formData",
                         "getMockAccounts", "generateToken">>)
  /\ (Done /\ TokenRequest /\ GuardHolds) =>
       IF ~FormEncoded
       THEN IsError(415, "Invalid content type. Expected application/x-www-form-urlencoded")
       ELSE IF req.session = Throws THEN IsCaught
       ELSE IF ~SessionUser THEN IsError(401, "Unauthorized")
       ELSE IF formData.status = "threw" THEN IsCaught
       ELSE IF ~FieldsGiven
            THEN IsError(400, "Missing required fields: account_id, client_id, nonce, and disclosure_text_shown")
       ELSE IF ~AccountKnown THEN IsError(400, "Invalid account_id")
       ELSE resp.status = 200 /\ HasToken

\* a guarded token request with no signed-in user and a JSON body was answered
C1_Witness ==
  /\ Done /\ TokenRequest /\ GuardHolds
  /\ ~SessionUser /\ req.session # Throws
  /\ req.contentType = "application/json"
  /\ resp.status = 415

----------------------------------------------------------------------------
(* C2 *)

\* C2: a 200 on accounts, client-metadata, disconnect (GET) or token (POST)
\* is emitted only if the Origin Guard passed for that request; the guard is
\* evaluated before the session lookup, the body read and every provider or
\* issuer call; a manifest or config.json request is answered 200 without
\* the guard being evaluated.
C2_GuardBeforeData ==
  /\ (Done /\ resp.status = 200 /\ (GuardedGet \/ TokenRequest)) =>
       (GuardHolds /\ guard = "pass")
  /\ \A i \in 1..Len(trace) :
       trace[i] \in Providers =>
         /\ GuardHolds
         /\ \E j \in 1..(i - 1) : trace[j] = "validateFedCMRequest"
  /\ (Done /\ ManifestGet) =>
       /\ resp.status = 200
       /\ \A i \in 1..Len(trace) : trace[i] # "validateFedCMRequest"

\* a token was issued in production to a request carrying the FedCM header
C2_Witness ==
  /\ Done /\ TokenRequest /\ resp.status = 200
  /\ env.NODE_ENV = "production"
  /\ req.secFetchDest = "webidentity"

----------------------------------------------------------------------------
(* C3 *)

\* C3 as stated: on GET accounts, client-metadata and disconnect, a request
\* whose Sec-Fetch-Dest is absent or is not "webidentity" is answered 401
\* {error: "Unauthorized"}.
C3_AlwaysUnauthorized ==
  (Done /\ GuardedGet /\ req.secFetchDest # "webidentity") =>
    IsError(401, "Unauthorized")

\* C3 (amended): outside bypass mode, on GET accounts, client-metadata and
\* disconnect, a request whose Sec-Fetch-Dest is absent or is not
\* "webidentity" is answered 401 {error: "Unauthorized"}, and no provider was
\* called for it.
C3_UnauthorizedOutsideBypass ==
  (Done /\ GuardedGet /\ req.secFetchDest # "webidentity" /\ ~BypassMode) =>
    /\ IsError(401, "Unauthorized")
    /\ \A i \in 1..Len(trace) : trace[i] \notin Providers

\* an accounts request without the header was refused outside bypass mode
C3_Witness ==
  /\ Done /\ GuardedGet /\ ~BypassMode
  /\ req.route = "accounts"
  /\ req.secFetchDest = Null
  /\ resp.status = 401

----------------------------------------------------------------------------
(* C4 *)

\* C4: whenever the Origin Guard has been evaluated, it passed if and only
\* if bypass mode is on (development environment and the bypass flag "true",
\* both) or Sec-Fetch-Dest is exactly "webidentity".
C4_GuardIff ==
  (guard # "none") =>
    ((guard = "pass") <=>
       \/ (env.NODE_ENV = "development" /\ env.BYPASS_SEC_FETCH_CHECK = "true")
       \/ req.secFetchDest = "webidentity")

\* the flag alone, in production, did not let a near-miss header through
C4_Witness ==
  /\ guard = "fail"
  /\ env.NODE_ENV = "production"
  /\ env.BYPASS_SEC_FETCH_CHECK = "true"
  /\ req.secFetchDest = "WebIdentity"

----------------------------------------------------------------------------
(* C5 *)

\* C5: a GET or POST on a route segment outside the six supported ones is
\* answered 400 {error: "Invalid route"} whatever its headers and session
\* are, before the Origin Guard or any other call.
C5_InvalidRoute ==
  (Done /\ req.method # "OPTIONS"
        /\ req.route \notin {"manifest", "accounts", "client-metadata",
                             "disconnect", "token", "config.json"}) =>
    /\ IsError(400, "Invalid route")
    /\ guard = "none"
    /\ trace = <<"isValidFedCMRoute">>

\* a POST on an unsupported segment, well-formed otherwise, was refused
C5_Witness ==
  /\ Done /\ req.handler = "POST" /\ req.method = "POST"
  /\ req.route = "login"
  /\ req.secFetchDest = "webidentity" /\ FormEncoded /\ SessionUser
  /\ resp.status = 400

----------------------------------------------------------------------------
(* C6 *)

\* C6: GET on token, and POST on manifest, config.json, accounts,
\* client-metadata or disconnect, is answered 405
\* {error: "Route not supported"}, with no guard and no provider call.
C6_RouteNotSupported ==
  (Done /\ req.method # "OPTIONS"
        /\ \/ (req.handler = "GET" /\ req.route = "token")
           \/ (req.handler = "POST"
               /\ req.route \in {"manifest", "config.json", "accounts",
                                 "client-metadata", "disconnect"})) =>
    /\ IsError(405, "Route not supported")
    /\ guard = "none"
    /\ \A i \in 1..Len(trace) : trace[i] \notin Providers

\* a GET on token carrying the FedCM header was refused
C6_Witness ==
  /\ Done /\ req.handler = "GET" /\ req.method = "GET"
  /\ req.route = "token" /\ req.secFetchDest = "webidentity"
  /\ resp.status = 405

----------------------------------------------------------------------------
(* C7 *)

\* C7: a request whose method is OPTIONS is answered 204 with the policy
\* headers and no body, before the route is validated and before the guard,
\* on every route segment.
C7_Preflight ==
  (Done /\ req.method = "OPTIONS") =>
    /\ resp.status = 204
    /\ resp.body = NullBody
    /\ resp.headers = PolicyHeaders
    /\ trace = <<>>
    /\ guard = "none"

\* an OPTIONS request on an unsupported segment was answered
C7_Witness ==
  /\ Done /\ req.method = "OPTIONS" /\ req.route = "login"
  /\ req.secFetchDest = Null
  /\ resp.status = 204

----------------------------------------------------------------------------
(* C8 *)

\* C8: GET on manifest and on config.json is answered 200 with the document
\* of the four endpoint URLs, which depends on the base URL only, for every
\* Sec-Fetch-Dest and every environment.
C8_ManifestAlways ==
  (Done /\ ManifestGet) =>
    LET base == IF env.NEXT_PUBLIC_APP_FQDN \in {Null, ""} THEN <<>>
                ELSE <<IF req.https THEN "https" ELSE "http", "://",
                       env.NEXT_PUBLIC_APP_FQDN>>
    IN /\ resp.status = 200
       /\ resp.body =
            [ accounts_endpoint |-> base \o <<"/api/fedcm/accounts">>,
              client_metadata_endpoint |-> base \o <<"/api/fedcm/client-metadata">>,
              id_assertion_endpoint |-> base \o <<"/api/fedcm/token">>,
              disconnect_endpoint |-> base \o <<"/api/fedcm/disconnect">> ]

\* config.json was served in production to a request without the header
C8_Witness ==
  /\ Done /\ ManifestGet /\ req.route = "config.json"
  /\ req.secFetchDest = Null /\ ~BypassMode
  /\ resp.status = 200

----------------------------------------------------------------------------
(* C9 *)

\* C9: every response of GET and POST carries the Protocol Header Policy
\* mapping, whatever its status.
C9_PolicyHeaders ==
  Done =>
    /\ resp.headers = PolicyHeaders
    /\ resp.status \in {200, 204, 400, 401, 405, 415}

\* an error response of the token path was emitted
C9_Witness ==
  Done /\ TokenRequest /\ resp.status = 415

----------------------------------------------------------------------------
(* C10 *)

\* C10: a response carries a token if and only if the request is a POST to
\* token for which the guard passes, the content type is form-encoded, the
\* session lookup yields a user, the four fields are given and account_id
\* is in the Account Directory; the status is then 200 and the body is
\* {token}, generated from (account_id, client_id).
C10_TokenIff ==
  /\ ~Done => ~HasToken
  /\ Done =>
       /\ HasToken <=>
            /\ TokenRequest
            /\ GuardHolds
            /\ FormEncoded
            /\ SessionUser
            /\ FieldsGiven
            /\ AccountKnown
       /\ HasToken =>
            /\ resp.status = 200
            /\ DOMAIN resp.body = {"token"}
            /\ resp.body.token.account_id = formData.account_id
            /\ resp.body.token.client_id = formData.client_id

\* a token was issued for acc1 to client demo
C10_Witness ==
  /\ Done /\ HasToken
  /\ formData.account_id = "acc1" /\ formData.client_id = "demo"

----------------------------------------------------------------------------
(* C11 *)

\* C11: a token request that passes every earlier precondition and whose
\* account_id is not an id of the Account Directory is answered 400
\* {error: "Invalid account_id"}; no response to a request with such an
\* account_id carries a token.
C11_InvalidAccount ==
  /\ (Done /\ TokenRequest /\ GuardHolds /\ FormEncoded /\ SessionUser
           /\ FieldsGiven /\ ~AccountKnown) =>
       /\ IsError(400, "Invalid account_id")
       /\ \A i \in 1..Len(trace) : trace[i] # "generateToken"
  /\ (formData.status = "read" /\ ~AccountKnown) => ~HasToken

\* the request of the spec's example, account_id=doesnotexist, was refused
C11_Witness ==
  /\ Done /\ TokenRequest /\ FieldsGiven
  /\ formData.account_id = "doesnotexist"
  /\ resp.status = 400
  /\ guard = "pass"

----------------------------------------------------------------------------
(* C12 *)

\* the fields that a submitted form lacks
MissingSet ==
  { f \in {"account_id", "client_id", "nonce", "disclosure_text_shown"} :
      ~Given(formData[f]) }

\* the fields that an error text names
NamedIn(text) ==
  IF text = "Missing required fields: account_id, client_id, nonce, and disclosure_text_shown"
  THEN {"account_id", "client_id", "nonce", "disclosure_text_shown"}
  ELSE {}

FieldsReached ==
  /\ Done /\ TokenRequest /\ GuardHolds /\ FormEncoded /\ SessionUser
  /\ formData.status = "read"

\* C12 as stated: a token request that lacks one or more of the four fields
\* is answered 400 with an error naming the set of fields that this request
\* lacks.
C12_NamesMissingSet ==
  (FieldsReached /\ MissingSet # {}) =>
    /\ resp.status = 400
    /\ DOMAIN resp.body = {"error"}
    /\ NamedIn(resp.body.error[1]) = MissingSet

\* C12 (amended): a token request that lacks one or more of the four fields
\* is answered 400 with the fixed error text that lists all four required
\* fields, whichever of them are missing; it carries no token, and neither
\* the account directory nor the token generator was called.
C12_FixedMissingText ==
  (FieldsReached /\ MissingSet # {}) =>
    /\ IsError(400, "Missing required fields: account_id, client_id, nonce, and disclosure_text_shown")
    /\ ~HasToken
    /\ \A i \in 1..Len(trace) :
         trace[i] \notin {"getMockAccounts", "generateToken"}

\* a form lacking the nonce only was refused
C12_Witness ==
  /\ FieldsReached
  /\ MissingSet = {"nonce"}
  /\ formData.nonce = Null
  /\ resp.status = 400

----------------------------------------------------------------------------
(* C13 *)

\* C13: a GET on client-metadata that passes the Origin Guard is answered
\* 200 with the metadata of the client_id of the query, or of "mockfedcm"
\* when the query has none or an empty one; the response
\* 400 "Missing client_id parameter" is never produced.
C13_ClientIdDefaulted ==
  /\ (Done /\ req.handler = "GET" /\ req.method # "OPTIONS"
           /\ req.route = "client-metadata" /\ GuardHolds) =>
       /\ resp.status = 200
       /\ resp.body.clientId =
            (IF Given(req.clientIdQuery) THEN req.clientIdQuery ELSE "mockfedcm")
       /\ trace[Len(trace)] = "getClientMetadata"
  /\ ~IsError(400, "Missing client_id parameter")

\* a guarded client-metadata request without client_id was served
C13_Witness ==
  /\ Done /\ req.handler = "GET" /\ req.method = "GET"
  /\ req.route = "client-metadata" /\ req.clientIdQuery = Null
  /\ ~BypassMode
  /\ resp.status = 200

----------------------------------------------------------------------------
(* C14 *)

\* C14: a GET on disconnect that passes the Origin Guard is answered 200
\* {success: true}; no step of a disconnect request changes the Account
\* Directory or the environment, and once its response is handed over the
\* handler is in the state it was in before the request arrived, so that
\* later requests are served as if the disconnect had not been made.
C14_DisconnectStub ==
  /\ [](( Done /\ req.handler = "GET" /\ req.method # "OPTIONS"
               /\ req.route = "disconnect" /\ GuardHolds ) =>
          ( resp.status = 200 /\ resp.body = [success |-> TRUE] ))
  /\ [][ req.route = "disconnect" =>
           /\ directory' = directory
           /\ env' = env
           /\ pc' = "idle" =>
                /\ req' = NoRequest
                /\ resp' = NoResponse
                /\ trace' = <<>>
                /\ guard' = "none"
                /\ formData' = UnreadForm ]_vars

\* a disconnect was served with the directory as it was at the start
C14_Witness ==
  /\ Done /\ req.handler = "GET" /\ req.method = "GET"
  /\ req.route = "disconnect" /\ req.secFetchDest = "webidentity"
  /\ resp.status = 200
  /\ directory = MockAccounts

----------------------------------------------------------------------------
(* C15 *)

----------------------------------------------------------------------------
(* C17 *)

\* the response of the token path to a submitted form, once the form is read
IssueOutcome(fd) ==
  LET a == POST_AfterFormData(fd) IN
  IF a.pc = "done" THEN a.resp
  ELSE POST_AfterAccounts(fd, getMockAccounts, 1).resp

\* C17: the response to a token request whose form was read has the same
\* status and the same kind of body as the response to the same form with
\* any other non-empty nonce and disclosure_text_shown; a form with
\* disclosure_text_shown=false and a valid account is issued a token; a form
\* in which one of the four fields is the empty string is answered as the
\* form without that field.
C17_ValuesIgnored ==
  /\ (FieldsReached /\ Given(formData.nonce)
                    /\ Given(formData.disclosure_text_shown)) =>
       \A n \in NonceValues, d \in DisclosureValues :
         (Given(n) /\ Given(d)) =>
           LET r == IssueOutcome([formData EXCEPT !.nonce = n,
                                                  !.disclosure_text_shown = d])
           IN r.status = resp.status /\ DOMAIN r.body = DOMAIN resp.body
  /\ (FieldsReached /\ FieldsGiven /\ AccountKnown
                    /\ formData.disclosure_text_shown = "false") =>
       (resp.status = 200 /\ HasToken)
  /\ FieldsReached =>
       \A f \in {"account_id", "client_id", "nonce", "disclosure_text_shown"} :
         formData[f] = "" =>
           /\ IsError(400, "Missing required fields: account_id, client_id, nonce, and disclosure_text_shown")
           /\ resp = IssueOutcome([formData EXCEPT ![f] = Null])

\* a token was issued although the disclosure text was not shown
C17_Witness ==
  /\ Done /\ HasToken
  /\ formData.disclosure_text_shown = "false"
  /\ formData.nonce = "xyz"

----------------------------------------------------------------------------
(* C18 *)

\* C18: every request received by GET or POST, the session lookup and the
\* body read returning or throwing, ends in a response; a response exists
\* only when the handler has returned, its status is one of 200, 204, 400,
\* 401, 405, 415, and a handler that has returned does nothing more than
\* hand that response over.
C18_AlwaysResponds ==
  /\ [](pc \notin {"idle", "done"} => <>(pc = "done"))
  /\ [](Done => resp.status \in {200, 204, 400, 401, 405, 415})
  /\ [](~Done => resp = NoResponse)
  /\ [][Done => (pc' = "idle" /\ resp' = NoResponse)]_vars

\* the GET path through the account directory ended in a response
C18_Witness ==
  /\ Done /\ req.handler = "GET" /\ req.route = "accounts"
  /\ trace = <<"isValidFedCMRoute", "validateFedCMRequest", "getMockAccounts">>
  /\ resp.status = 200

----------------------------------------------------------------------------
(* C16 *)

\* the response to request r, with submitted form fd, when it runs alone
RunAlone(r, fd) ==
  LET o1 == IF r.handler = "GET" THEN GET_Enter(r) ELSE POST_Enter(r)
      o2 == CASE o1.pc = "GET_accounts" -> GET_AfterAccounts(getMockAccounts)
              [] o1.pc = "POST_session" -> POST_AfterSession(r.session)
              [] OTHER -> o1
      o3 == IF o2.pc = "POST_formData" THEN POST_AfterFormData(fd) ELSE o2
      o4 == IF o3.pc = "POST_accounts"
            THEN POST_AfterAccounts(fd, getMockAccounts, 1) ELSE o3
  IN o4.resp

\* C16: when requests interleave at the suspension points, every request
\* that has returned has the status and the kind of body it has when it
\* runs alone; a step of one request changes that request's frame only, and
\* no step changes the environment or the Account Directory.
C16_Independent ==
  /\ [](\A s \in Slots :
          slots[s].pc = "done" =>
            LET alone == RunAlone(slots[s].req, slots[s].formData) IN
            /\ slots[s].resp.status = alone.status
            /\ DOMAIN slots[s].resp.body = DOMAIN alone.body)
  /\ [][ /\ env' = env
         /\ directory' = directory
         /\ \A s, t \in Slots :
              (slots'[s] # slots[s] /\ t # s) => slots'[t] = slots[t] ]_vars

\* a token was issued to one request while another, refused, was in flight
C16_Witness ==
  \E s, t \in Slots :
    /\ s # t
    /\ slots[s].pc = "done"
    /\ "token" \in DOMAIN slots[s].resp.body
    /\ slots[t].pc = "POST_session"
    /\ slots[t].req.session = Null

----------------------------------------------------------------------------
(* C19 *)

====
